---------------------------- MODULE Spec2Model ----------------------------
(***************************************************************************)
(* marukov: a Markov-chain text generator.                                 *)
(*   vocab.rs  Vocab  word <-> token id                                    *)
(*   chain.rs  Chain  state table, weighted sampling, random walk          *)
(*   text.rs   Text   parsing, overlap verifier, try loop                  *)
(* Strings are sequences of one-character strings, so that splitting,      *)
(* joining and substring search are computed character by character.       *)
(***************************************************************************)
EXTENDS Integers, Sequences, FiniteSets, TLC

VARIABLES
    tokenizer,     \* Vocab: [word_to_id, id_to_word]
    vcall,         \* the last Vocab call: [op, word, token, ret, hit]
    first_seen,    \* history: the words in the order of their first to_token
    vprev,         \* history: the Vocab before the last Vocab call
    data,          \* the training sequences given to Chain::new
    chain,         \* Chain: [token_begin, token_end, model, begin_choices, begin_weights]
    iter_order,    \* the iteration order of each Weight HashMap of the model
    cpc,           \* Chain: "new", "ready", "walk", "returned", "panic"
    err,           \* the operation that panicked, or "none"
    state,         \* Chain::generate: state
    result,        \* Chain::generate: result
    start,         \* history: the init_state of the running Chain::generate
    drawn,         \* history: the Chain::next calls of the running Chain::generate
    raw,           \* the raw text given to Text::new
    text,          \* Text: [parsed_sentences, rejoined_text] (chain, tokenizer above)
    options,       \* Text::generate: options
    pc,            \* Text: "new", "ready", "loop", "sampling", "returned"
    tries_done,    \* Text::generate: the turns of the for loop that are over
    ret,           \* Text::generate: the returned String
    vfy            \* the last direct call of verify: [words, mot, done, ok]

vocab_vars == <<tokenizer, vcall, first_seen, vprev>>

chain_vars == <<data, chain, iter_order, cpc, err, state, result, start, drawn>>

text_vars == <<raw, text, options, pc, tries_done, ret, vfy>>

vars == <<tokenizer, vcall, first_seen, vprev,
          data, chain, iter_order, cpc, err, state, result, start, drawn,
          raw, text, options, pc, tries_done, ret, vfy>>

-----------------------------------------------------------------------------
(* Sequences and strings                                                    *)

Range(s) == {s[i] : i \in 1..Len(s)}

Min(a, b) == IF a < b THEN a ELSE b

Max(a, b) == IF a > b THEN a ELSE b

\* All sequences over S of length 0..n.
SeqsUpTo(S, n) == UNION {[1..k -> S] : k \in 0..n}

\* The empty HashMap.
EmptyMap == [x \in {} |-> 0]

\* slice.join(sep)
RECURSIVE JoinWith(_, _)
JoinWith(parts, sep) ==
    IF Len(parts) = 0 THEN <<>>
    ELSE IF Len(parts) = 1 THEN parts[1]
    ELSE parts[1] \o sep \o JoinWith(Tail(parts), sep)

\* str.starts_with(pat): the search that looks at the start of s only.
StartsWith(s, pat) == Len(pat) <= Len(s) /\ SubSeq(s, 1, Len(pat)) = pat

\* str.contains(pat): pat occurs as a contiguous substring of s.
Contains(s, pat) ==
    \E i \in 1..(Len(s) + 1) :
        /\ i + Len(pat) - 1 <= Len(s)
        /\ SubSeq(s, i, i + Len(pat) - 1) = pat

-----------------------------------------------------------------------------
(* vocab.rs                                                                 *)

\* Vocab::new
VocabNew == [word_to_id |-> EmptyMap, id_to_word |-> <<>>]

\* to_token with the id taken one past the length (an off-by-one).
to_token_off_by_one(v, word) ==
    IF word \in DOMAIN v.word_to_id
    THEN [v |-> v, id |-> v.word_to_id[word]]
    ELSE LET id == Len(v.id_to_word) + 1
         IN [v |-> [word_to_id |-> [w \in (DOMAIN v.word_to_id) \cup {word} |->
                                       IF w = word THEN id ELSE v.word_to_id[w]],
                    id_to_word |-> Append(v.id_to_word, word)],
             id |-> id]

\* Vocab::to_token: the Vocab after the call and the returned id. The id is
\* len() as u32; a Vocab never holds 2^32 words here, so the cast keeps it.
to_token(v, word) ==
    IF word \in DOMAIN v.word_to_id
    THEN [v |-> v, id |-> v.word_to_id[word]]
    ELSE LET id == Len(v.id_to_word)
         IN [v |-> [word_to_id |-> [w \in (DOMAIN v.word_to_id) \cup {word} |->
                                       IF w = word THEN id ELSE v.word_to_id[w]],
                    id_to_word |-> Append(v.id_to_word, word)],
             id |-> id]

\* Option<u32>: <<>> is None, <<id>> is Some(id).
to_token_opt(v, word) ==
    IF word \in DOMAIN v.word_to_id THEN <<v.word_to_id[word]>> ELSE <<>>

\* to_word that takes the id as a 1-based position.
to_word_one_based(v, token) ==
    IF token >= 1 /\ token <= Len(v.id_to_word) THEN v.id_to_word[token] ELSE <<>>

\* to_word that answers the last word for an id that is out of range.
to_word_clamped(v, token) ==
    IF token + 1 <= Len(v.id_to_word) THEN v.id_to_word[token + 1]
    ELSE IF Len(v.id_to_word) > 0 THEN v.id_to_word[Len(v.id_to_word)]
    ELSE <<>>

\* Vocab::to_word: the empty string for an id that is out of range.
to_word(v, token) ==
    IF token + 1 <= Len(v.id_to_word) THEN v.id_to_word[token + 1] ELSE <<>>

\* No Vocab call yet.
NoCall == [op |-> "none", word |-> <<>>, token |-> 0, ret |-> <<>>, hit |-> FALSE]

VocabIdle ==
    /\ vcall = NoCall
    /\ first_seen = <<>>
    /\ vprev = VocabNew

-----------------------------------------------------------------------------
(* chain.rs                                                                 *)

STATE_SIZE == 2

\* Chain::default
ChainDefault(begin, end) ==
    [token_begin |-> begin, token_end |-> end, model |-> EmptyMap,
     begin_choices |-> <<>>, begin_weights |-> <<>>]

\* Chain::accumulate, after the first i elements of ns: the loop pushes the
\* running total BEFORE adding the element, and the total starts at ns[0].
RECURSIVE accumulate_loop(_, _, _, _)
accumulate_loop(ns, i, total, numbers) ==
    IF i > Len(ns) THEN numbers
    ELSE accumulate_loop(ns, i + 1, total + ns[i], Append(numbers, total))

\* Chain::accumulate (ns is not empty: ns[0] panics otherwise).
accumulate(ns) == accumulate_loop(ns, 1, ns[1], <<>>)

\* Chain::compile_next: keys() and values() walk the HashMap in the same order.
compile_next(weight, ord) ==
    [words |-> ord, cum |-> accumulate([i \in 1..Len(ord) |-> weight[ord[i]]])]

\* The bisection that stops at an equal element instead of one past it.
bisect_left(slice, x) == Cardinality({i \in 1..Len(slice) : slice[i] < x})

\* Chain::bisect_right on a sorted slice, as a 0-based index: one past the
\* equal element binary_search finds, else the insertion point.
bisect_right(slice, x) ==
    IF \E i \in 1..Len(slice) : slice[i] = x
    THEN CHOOSE i \in 1..Len(slice) : slice[i] = x
    ELSE Cardinality({i \in 1..Len(slice) : slice[i] < x})

\* The extended sequence closed by the begin token instead of the end token.
Items_closed_by_begin(run, begin, end) ==
    [i \in 1..STATE_SIZE |-> begin] \o run \o <<begin>>

\* The extended sequence of build: STATE_SIZE begins, the run, one end.
Items(run, begin, end) == [i \in 1..STATE_SIZE |-> begin] \o run \o <<end>>

\* The entry written with insert(follow, 1): a repeated pair is not counted up.
AddFollow_insert_one(model, st, follow) ==
    LET weight == IF st \in DOMAIN model THEN model[st] ELSE EmptyMap
        added  == [t \in (DOMAIN weight) \cup {follow} |->
                      IF t = follow THEN 1 ELSE weight[t]]
    IN [s \in (DOMAIN model) \cup {st} |-> IF s = st THEN added ELSE model[s]]

\* model.entry(state).or_default().entry(follow).and_modify(+1).or_insert(1)
AddFollow(model, st, follow) ==
    LET weight == IF st \in DOMAIN model THEN model[st] ELSE EmptyMap
        count  == IF follow \in DOMAIN weight THEN weight[follow] + 1 ELSE 1
        added  == [t \in (DOMAIN weight) \cup {follow} |->
                      IF t = follow THEN count ELSE weight[t]]
    IN [s \in (DOMAIN model) \cup {st} |-> IF s = st THEN added ELSE model[s]]

\* The inner loop of build from window i (0-based) up to window last.
RECURSIVE build_run(_, _, _, _)
build_run(model, items, i, last) ==
    IF i > last THEN model
    ELSE build_run(AddFollow(model, SubSeq(items, i + 1, i + STATE_SIZE),
                             items[i + STATE_SIZE + 1]),
                   items, i + 1, last)

\* build that leaves out the last window of each run (0..run.len()).
RECURSIVE build_short(_, _, _, _)
build_short(model, runs, begin, end) ==
    IF Len(runs) = 0 THEN model
    ELSE build_short(build_run(model, Items(runs[1], begin, end), 0, Len(runs[1]) - 1),
                     Tail(runs), begin, end)

\* Chain::build, from the model built so far and the runs still to read.
RECURSIVE build(_, _, _, _)
build(model, runs, begin, end) ==
    IF Len(runs) = 0 THEN model
    ELSE build(build_run(model, Items(runs[1], begin, end), 0, Len(runs[1])),
               Tail(runs), begin, end)

\* Chain::begin_state
begin_state(c) == [i \in 1..STATE_SIZE |-> c.token_begin]

\* Chain::compute
compute(c, ord) ==
    IF begin_state(c) \in DOMAIN c.model
    THEN LET cn == compile_next(c.model[begin_state(c)], ord[begin_state(c)])
         IN [c EXCEPT !.begin_choices = cn.words, !.begin_weights = cn.cum]
    ELSE c

\* Chain::new; ord is the iteration order of the HashMaps that build made.
ChainNewOf(runs, begin, end, ord) ==
    compute([ChainDefault(begin, end) EXCEPT !.model = build(EmptyMap, runs, begin, end)],
            ord)

\* The orders in which a HashMap with these keys can be iterated.
Orders(keys) ==
    {o \in [1..Cardinality(keys) -> keys] : Range(o) = keys}

\* One iteration order for each Weight of the model (each HashMap has its own).
RECURSIVE IterOrdersOn(_, _)
IterOrdersOn(model, keys) ==
    IF keys = {} THEN {EmptyMap}
    ELSE LET s == CHOOSE k \in keys : TRUE
         IN {[k \in keys |-> IF k = s THEN o ELSE rest[k]] :
                o \in Orders(DOMAIN model[s]), rest \in IterOrdersOn(model, keys \ {s})}

IterOrders(model) == IterOrdersOn(model, DOMAIN model)

\* Chain::next up to the draw: the candidates and their cumulative list, or
\* the unwrap / index that panics.
Candidates(c, ord, st) ==
    IF st = begin_state(c)
    THEN [err |-> "none", choices |-> c.begin_choices, cumdist |-> c.begin_weights]
    ELSE IF st \notin DOMAIN c.model
    THEN [err |-> "model.get(state).unwrap()", choices |-> <<>>, cumdist |-> <<>>]
    ELSE IF DOMAIN c.model[st] = {}
    THEN [err |-> "accumulate: ns[0]", choices |-> <<>>, cumdist |-> <<>>]
    ELSE [err |-> "none", choices |-> ord[st],
          cumdist |-> accumulate([i \in 1..Len(ord[st]) |-> c.model[st][ord[st][i]]])]

\* The values of r_i32: a fraction in [0, 1) times the last cumulative value,
\* truncated toward zero.
Targets(cumdist) ==
    LET last == cumdist[Len(cumdist)]
    IN IF last > 0 THEN 0..(last - 1) ELSE (IF last = 0 THEN {0} ELSE (last + 1)..0)

\* next that answers token_end on an empty cumulative list instead of panicking.
next_unwrap_or_end(c, ord, st, r_i32) ==
    LET cand == Candidates(c, ord, st)
        idx  == bisect_right(cand.cumdist, r_i32)
    IN IF cand.err # "none" THEN [err |-> cand.err, token |-> 0]
       ELSE IF Len(cand.cumdist) = 0
       THEN [err |-> "none", token |-> c.token_end]
       ELSE IF idx >= Len(cand.choices)
       THEN [err |-> "choices[index]", token |-> 0]
       ELSE [err |-> "none", token |-> cand.choices[idx + 1]]

\* Chain::next for the draw r_i32: the token, or the panic.
next(c, ord, st, r_i32) ==
    LET cand == Candidates(c, ord, st)
        idx  == bisect_right(cand.cumdist, r_i32)
    IN IF cand.err # "none" THEN [err |-> cand.err, token |-> 0]
       ELSE IF Len(cand.cumdist) = 0
       THEN [err |-> "cumdist.last().unwrap()", token |-> 0]
       ELSE IF idx >= Len(cand.choices)
       THEN [err |-> "choices[index]", token |-> 0]
       ELSE [err |-> "none", token |-> cand.choices[idx + 1]]

\* The draws Chain::next can make in state st ({0} stands for the one way to
\* reach a panic that comes before the draw).
Draws(c, ord, st) ==
    LET cand == Candidates(c, ord, st)
    IN IF cand.err # "none" \/ Len(cand.cumdist) = 0 THEN {0}
       ELSE Targets(cand.cumdist)

\* Chain::find_init_states: the states, in no particular order.
find_init_states(c, tok) == {s \in DOMAIN c.model : tok \in Range(s)}

-----------------------------------------------------------------------------
(* text.rs                                                                  *)

\* max overlap ratio 0.7, in tenths
MOR == 7

\* max overlap total
MOT == 15

BEGIN == <<"_", "_", "_", "B", "E", "G", "I", "N", "_", "_">>

END == <<"_", "_", "_", "E", "N", "D", "_", "_">>

DefaultOptions == [tries |-> 999, min_words |-> 0, max_words |-> 100]

\* char::is_whitespace, on the characters used here
IsWhitespace(ch) == ch \in {" ", "\t"}

\* The curly quotation marks U+201C and U+201D, each one character.
LDQUO == "U+201C"

RDQUO == "U+201D"

\* unidecode::unidecode: every character by its ASCII transliteration; the
\* curly quotation marks become the straight one, ASCII stays as it is.
RECURSIVE unidecode(_)
unidecode(s) ==
    IF Len(s) = 0 THEN <<>>
    ELSE (IF s[1] \in {LDQUO, RDQUO} THEN <<"\"">> ELSE <<s[1]>>) \o unidecode(Tail(s))

\* The reject pattern (^')|('$)|\s'|'\s|["()\[\]] matches somewhere in s.
reject_is_match(s) ==
    \/ Len(s) > 0 /\ s[1] = "'"
    \/ Len(s) > 0 /\ s[Len(s)] = "'"
    \/ \E i \in 1..(Len(s) - 1) : IsWhitespace(s[i]) /\ s[i + 1] = "'"
    \/ \E i \in 1..(Len(s) - 1) : s[i] = "'" /\ IsWhitespace(s[i + 1])
    \/ \E i \in 1..Len(s) : s[i] \in {"\"", "(", ")", "[", "]"}

\* Text::sentence_input
sentence_input(s) ==
    IF \A i \in 1..Len(s) : IsWhitespace(s[i]) THEN FALSE
    ELSE IF reject_is_match(unidecode(s)) THEN FALSE
    ELSE TRUE

\* str.split(sep) for a one-character separator: the pieces between the
\* separators, empty ones included; cur is the piece being read.
RECURSIVE split(_, _, _)
split(s, sep, cur) ==
    IF Len(s) = 0 THEN <<cur>>
    ELSE IF s[1] = sep THEN <<cur>> \o split(Tail(s), sep, <<>>)
    ELSE split(Tail(s), sep, Append(cur, s[1]))

\* str.split_whitespace: the maximal runs of non-whitespace characters.
RECURSIVE split_whitespace(_, _)
split_whitespace(s, cur) ==
    IF Len(s) = 0 THEN (IF Len(cur) = 0 THEN <<>> ELSE <<cur>>)
    ELSE IF IsWhitespace(s[1])
    THEN (IF Len(cur) = 0 THEN <<>> ELSE <<cur>>) \o split_whitespace(Tail(s), <<>>)
    ELSE split_whitespace(Tail(s), Append(cur, s[1]))

\* The words of one sentence through to_token, in order.
RECURSIVE tokenize_words(_, _, _)
tokenize_words(v, words, ids) ==
    IF Len(words) = 0 THEN [v |-> v, ids |-> ids]
    ELSE LET r == to_token(v, words[1])
         IN tokenize_words(r.v, Tail(words), Append(ids, r.id))

\* The sentences through split_whitespace and to_token, in order.
RECURSIVE tokenize_sentences(_, _, _)
tokenize_sentences(v, sentences, parsed) ==
    IF Len(sentences) = 0 THEN [v |-> v, parsed |-> parsed]
    ELSE LET r == tokenize_words(v, split_whitespace(sentences[1], <<>>), <<>>)
         IN tokenize_sentences(r.v, Tail(sentences), Append(parsed, r.ids))

\* Text::parse: the tokenizer after it, the parsed sentences, the rejoined text.
parse(v, input) ==
    LET sentences == SelectSeq(split(input, "\n", <<>>), sentence_input)
        r == tokenize_sentences(v, sentences, <<>>)
    IN [v |-> r.v, parsed |-> r.parsed, rejoined |-> JoinWith(sentences, <<" ">>)]

\* (mor * len as f32).round() for mor in tenths: the f32 product of 0.7 and a
\* length below 2^20 rounds to the exact product when that ends in .5, and
\* round() takes a half away from zero.
round_tenths(x) == (x + 5) \div 10

\* The loop of verify from gram i (0-based).
RECURSIVE verify_loop(_, _, _, _, _)
verify_loop(rejoined_text, words, i, gram_count, overlap_over) ==
    IF i >= gram_count THEN TRUE
    ELSE LET end  == Min(i + overlap_over, Len(words))
             gram == SubSeq(words, i + 1, end)
         IN IF Contains(rejoined_text, JoinWith(gram, <<" ">>)) THEN FALSE
            ELSE verify_loop(rejoined_text, words, i + 1, gram_count, overlap_over)

\* verify that looks at the first gram only.
verify_first_gram(rejoined_text, words, mor, mot) ==
    LET overlap_max == Min(mot, round_tenths(mor * Len(words)))
    IN verify_loop(rejoined_text, words, 0, 1, overlap_max + 1)

\* verify whose loop starts at the second gram.
verify_from_second(rejoined_text, words, mor, mot) ==
    LET overlap_max == Min(mot, round_tenths(mor * Len(words)))
        gram_count  == Max(Max(Len(words) - overlap_max, 0), 1)
    IN verify_loop(rejoined_text, words, 1, gram_count, overlap_max + 1)

\* Text::verify
verify(rejoined_text, words, mor, mot) ==
    LET overlap_ratio == round_tenths(mor * Len(words))
        overlap_max   == Min(mot, overlap_ratio)
        overlap_over  == overlap_max + 1
        gram_count    == Max(Max(Len(words) - overlap_max, 0), 1)
    IN verify_loop(rejoined_text, words, 0, gram_count, overlap_over)

\* x as usize for an i32 x: the pair <<k, v>> stands for k * 2^64 + v.
as_usize(x) == IF x >= 0 THEN <<0, x>> ELSE <<1, x>>

\* a < b on two such pairs (|v| < 2^31).
usize_lt(a, b) == a[1] < b[1] \/ (a[1] = b[1] /\ a[2] < b[2])

\* The length test of Text::generate: true when the candidate is skipped.
length_rejects(n, opts) ==
    \/ usize_lt(as_usize(opts.max_words), <<0, n>>)
    \/ usize_lt(<<0, n>>, as_usize(opts.min_words))

\* tokens.iter().map(to_word)
to_words(v, tokens) == [i \in 1..Len(tokens) |-> to_word(v, tokens[i])]

-----------------------------------------------------------------------------
(* The Chain: construction and the random walk of generate                  *)

MaxSteps == 4

ChainIdle ==
    /\ data = <<>>
    /\ chain = ChainDefault(0, 0)
    /\ iter_order = EmptyMap
    /\ cpc = "idle"
    /\ err = "none"
    /\ state = <<>>
    /\ result = <<>>
    /\ start = <<>>
    /\ drawn = 0

\* Chain::generate(init_state): the first lines, before the loop.
GenerateBegin(init_state) ==
    /\ state' = init_state
    /\ result' = <<>>
    /\ start' = init_state
    /\ drawn' = 0
    /\ cpc' = "walk"
    /\ err' = "none"

\* One turn of the loop of Chain::generate.
Step ==
    /\ cpc = "walk"
    /\ \E r_i32 \in Draws(chain, iter_order, state) :
         LET n == next(chain, iter_order, state, r_i32)
         IN /\ drawn' = drawn + 1
            /\ IF n.err # "none"
               THEN /\ cpc' = "panic"
                    /\ err' = n.err
                    /\ UNCHANGED <<state, result>>
               ELSE IF n.token = chain.token_end
               THEN /\ cpc' = "returned"
                    /\ UNCHANGED <<err, state, result>>
               ELSE /\ Len(result) < MaxSteps
                    /\ result' = Append(result, n.token)
                    /\ state' = Append(Tail(state), n.token)
                    /\ UNCHANGED <<cpc, err>>
    /\ UNCHANGED <<data, chain, iter_order, start>>

\* One turn of the loop of Chain::generate once result holds MaxSteps tokens:
\* the walk goes on from the next state; the tokens pushed to result beyond
\* MaxSteps are not kept, and the count of the calls of next stops growing.
StepBeyond ==
    /\ cpc = "walk"
    /\ Len(result) >= MaxSteps
    /\ \E r_i32 \in Draws(chain, iter_order, state) :
         LET n == next(chain, iter_order, state, r_i32)
         IN /\ n.err = "none"
            /\ n.token # chain.token_end
            /\ state' = Append(Tail(state), n.token)
    /\ drawn' = Min(drawn + 1, MaxSteps + 2)
    /\ UNCHANGED <<data, chain, iter_order, start, result, cpc, err>>

MaxData == 5

\* The tokens of the training sequences; 0 and 1 are the sentinels given to
\* Chain::new, and a run may hold them like any other token.
Tokens == {0, 1, 2, 3}

\* The runs written one after the other, each closed by a -1.
RECURSIVE Runs(_, _)
Runs(flat, run) ==
    IF Len(flat) = 0 THEN <<>>
    ELSE IF flat[1] = -1 THEN <<run>> \o Runs(Tail(flat), <<>>)
    ELSE Runs(Tail(flat), Append(run, flat[1]))

\* Every list of training sequences with at most n tokens and runs.
DataSetsUpTo(n) ==
    {Runs(flat, <<>>) :
        flat \in {f \in SeqsUpTo(Tokens \cup {-1}, n) :
                     Len(f) > 0 => f[Len(f)] = -1}}

DataSets == DataSetsUpTo(MaxData)

NoVerify == [words |-> <<>>, mot |-> MOT, done |-> FALSE, ok |-> FALSE]

TextIdle ==
    /\ raw = <<>>
    /\ text = [parsed_sentences |-> <<>>, rejoined_text |-> <<>>]
    /\ options = DefaultOptions
    /\ pc = "idle"
    /\ tries_done = 0
    /\ ret = <<>>
    /\ vfy = NoVerify

ChainInitOn(sets) ==
    /\ data \in sets
    /\ chain = ChainDefault(0, 1)
    /\ iter_order = EmptyMap
    /\ cpc = "new"
    /\ err = "none"
    /\ state = <<>>
    /\ result = <<>>
    /\ start = <<>>
    /\ drawn = 0
    /\ tokenizer = VocabNew
    /\ VocabIdle
    /\ TextIdle

ChainInit == ChainInitOn(DataSets)

\* Chain::new(data, begin, end)
ChainNew ==
    /\ cpc = "new"
    /\ \E ord \in IterOrders(build(EmptyMap, data, chain.token_begin, chain.token_end)) :
         /\ chain' = ChainNewOf(data, chain.token_begin, chain.token_end, ord)
         /\ iter_order' = ord
    /\ cpc' = "ready"
    /\ UNCHANGED <<data, err, state, result, start, drawn>>
    /\ UNCHANGED vocab_vars
    /\ UNCHANGED text_vars

\* chain.generate(None)
GenerateDefault ==
    /\ cpc = "ready"
    /\ GenerateBegin(begin_state(chain))
    /\ UNCHANGED <<data, chain, iter_order>>
    /\ UNCHANGED vocab_vars
    /\ UNCHANGED text_vars

\* chain.generate(Some(s)) for a state s that find_init_states returned
GenerateFrom ==
    /\ cpc = "ready"
    /\ \E tok \in Tokens : \E s \in find_init_states(chain, tok) : GenerateBegin(s)
    /\ UNCHANGED <<data, chain, iter_order>>
    /\ UNCHANGED vocab_vars
    /\ UNCHANGED text_vars

ChainStep == Step /\ UNCHANGED vocab_vars /\ UNCHANGED text_vars

ChainNext ==
    \/ ChainNew
    \/ GenerateDefault
    \/ GenerateFrom
    \/ ChainStep

SpecChain == ChainInit /\ [][ChainNext]_vars

MaxWalkData == 4

ChainStepBeyond == StepBeyond /\ UNCHANGED vocab_vars /\ UNCHANGED text_vars

\* The states of the Model with the end token, or a window of S, recorded as
\* the next one.
OneTurnBefore(S) ==
    {s \in DOMAIN chain.model :
        \E t \in DOMAIN chain.model[s] :
            t = chain.token_end \/ Append(Tail(s), t) \in S}

\* S with the states that are at most k recorded successors before S or
\* before the end token.
RECURSIVE Within(_, _)
Within(S, k) ==
    IF k = 0 THEN S
    ELSE CHOOSE R \in {Within(T, k - 1) : T \in {S \cup OneTurnBefore(S)}} : TRUE

\* The states at most k recorded successors before the end token.
EndWithin(k) == Within({}, k)

\* A turn of the loop, taken k turns away from the end token, whose draw
\* brings the walk one turn nearer.
TurnNearer(k) ==
    /\ cpc = "walk"
    /\ state \in EndWithin(k) \ EndWithin(k - 1)
    /\ ChainStep \/ ChainStepBeyond
    /\ cpc' = "returned" \/ (cpc' = "walk" /\ state' \in EndWithin(k - 1))

\* rand::rng() draws each turn independently and uniformly, so a token that
\* next can return in states the walk keeps coming back to is returned there
\* sooner or later. A Model of at most MaxWalkData states has at most
\* MaxWalkData distances from the end token.
SamplingFairness == \A k \in 1..MaxWalkData : SF_vars(TurnNearer(k))

ChainNextLong ==
    \/ ChainNew
    \/ GenerateDefault
    \/ ChainStep
    \/ ChainStepBeyond

\* The walks of chain.generate(None), of any length, under the fairness of
\* the draws.
SpecChainFair ==
    ChainInitOn(DataSetsUpTo(MaxWalkData)) /\ [][ChainNextLong]_vars /\ SamplingFairness

-----------------------------------------------------------------------------
(* The Text: Text::new, then calls of Text::generate                        *)

MaxLines == 2

MaxTries == 2

A == <<"a">>

SP == <<" ">>

\* The lines a raw text is made of.
Lines ==
    { <<>>,                                  \* an empty line
      A \o SP \o <<"b">>,
      A \o SP \o SP \o <<"b">>,              \* two spaces between the words
      A \o SP \o A \o SP \o A,
      BEGIN \o SP \o A,
      A \o SP \o END \o SP \o <<"b">>,
      <<LDQUO>> \o A \o <<RDQUO>> \o SP \o <<"b">> }  \* refused by the reject pattern

\* "a b c"
ABC == A \o SP \o <<"b">> \o SP \o <<"c">>

\* "a" and "a b" on two lines: a sentence of one word.
A_AB == A \o <<"\n">> \o A \o SP \o <<"b">>

RawTexts ==
    {JoinWith(ls, <<"\n">>) : ls \in UNION {[1..k -> Lines] : k \in 1..MaxLines}}
        \cup {ABC, A_AB}

\* The options of a call: every tries up to MaxTries (and a negative one) with
\* these word limits, and the default options for the text "a b c".
WordLimits == {<<0, 100>>, <<-1, 100>>, <<0, -1>>, <<2, 3>>}

OptionSets ==
    {[tries |-> t, min_words |-> l[1], max_words |-> l[2]] :
        t \in (-1)..MaxTries, l \in WordLimits}

Init ==
    /\ raw \in RawTexts
    /\ text = [parsed_sentences |-> <<>>, rejoined_text |-> <<>>]
    /\ options = DefaultOptions
    /\ pc = "new"
    /\ tries_done = 0
    /\ ret = <<>>
    /\ vfy = NoVerify
    /\ tokenizer = VocabNew
    /\ VocabIdle
    /\ ChainIdle

\* Text::new(raw)
TextNew ==
    /\ pc = "new"
    /\ LET p == parse(tokenizer, raw)
           b == to_token(p.v, BEGIN)
           e == to_token(b.v, END)
       IN /\ text' = [parsed_sentences |-> p.parsed, rejoined_text |-> p.rejoined]
          /\ tokenizer' = e.v
          /\ data' = p.parsed
          /\ \E ord \in IterOrders(build(EmptyMap, p.parsed, b.id, e.id)) :
               /\ chain' = ChainNewOf(p.parsed, b.id, e.id, ord)
               /\ iter_order' = ord
    /\ pc' = "ready"
    /\ cpc' = "ready"
    /\ UNCHANGED <<raw, options, tries_done, ret, vfy>>
    /\ UNCHANGED <<err, state, result, start, drawn>>
    /\ UNCHANGED <<vcall, first_seen, vprev>>

\* text.generate(opts) is called.
Generate ==
    /\ pc = "ready"
    /\ \E opts \in OptionSets \cup {DefaultOptions} :
         /\ opts = DefaultOptions => raw = ABC
         /\ options' = opts
    /\ pc' = "loop"
    /\ tries_done' = 0
    /\ UNCHANGED <<raw, text, ret, vfy>>
    /\ UNCHANGED <<chain_vars, vocab_vars>>

\* The loop written 0..=options.tries: one turn too many.
Attempt_inclusive ==
    /\ pc = "loop"
    /\ tries_done <= options.tries
    /\ GenerateBegin(begin_state(chain))
    /\ pc' = "sampling"
    /\ UNCHANGED <<raw, text, options, tries_done, ret, vfy>>
    /\ UNCHANGED <<data, chain, iter_order>>
    /\ UNCHANGED vocab_vars

\* for _ in 0..options.tries: one more turn, which calls chain.generate(None).
Attempt ==
    /\ pc = "loop"
    /\ tries_done < options.tries
    /\ GenerateBegin(begin_state(chain))
    /\ pc' = "sampling"
    /\ UNCHANGED <<raw, text, options, tries_done, ret, vfy>>
    /\ UNCHANGED <<data, chain, iter_order>>
    /\ UNCHANGED vocab_vars

\* The loop of chain.generate, inside the turn.
Sample ==
    /\ pc = "sampling"
    /\ Step
    /\ UNCHANGED <<text_vars, vocab_vars>>

\* The candidate is too long or too short: continue.
RejectLength ==
    /\ pc = "sampling"
    /\ cpc = "returned"
    /\ length_rejects(Len(result), options)
    /\ tries_done' = tries_done + 1
    /\ pc' = "loop"
    /\ UNCHANGED <<raw, text, options, ret, vfy>>
    /\ UNCHANGED <<chain_vars, vocab_vars>>

\* The candidate fails verify: the turn ends.
RejectOverlap ==
    /\ pc = "sampling"
    /\ cpc = "returned"
    /\ ~length_rejects(Len(result), options)
    /\ ~verify(text.rejoined_text, to_words(tokenizer, result), MOR, MOT)
    /\ tries_done' = tries_done + 1
    /\ pc' = "loop"
    /\ UNCHANGED <<raw, text, options, ret, vfy>>
    /\ UNCHANGED <<chain_vars, vocab_vars>>

\* The candidate passes: return words.join(" ").
Accept ==
    /\ pc = "sampling"
    /\ cpc = "returned"
    /\ ~length_rejects(Len(result), options)
    /\ verify(text.rejoined_text, to_words(tokenizer, result), MOR, MOT)
    /\ ret' = JoinWith(to_words(tokenizer, result), SP)
    /\ pc' = "returned"
    /\ UNCHANGED <<raw, text, options, tries_done, vfy>>
    /\ UNCHANGED <<chain_vars, vocab_vars>>

\* The loop is over: return the empty String.
Exhausted ==
    /\ pc = "loop"
    /\ tries_done >= options.tries
    /\ ret' = <<>>
    /\ pc' = "returned"
    /\ UNCHANGED <<raw, text, options, tries_done, vfy>>
    /\ UNCHANGED <<chain_vars, vocab_vars>>

Next ==
    \/ TextNew
    \/ Generate
    \/ Attempt
    \/ Sample
    \/ RejectLength
    \/ RejectOverlap
    \/ Accept
    \/ Exhausted

Spec == Init /\ [][Next]_vars

-----------------------------------------------------------------------------
(* verify on its own: any word list against any rejoined text               *)

MaxVerifyLen == 5

FOX == <<"t", "h", "e", " ", "q", "u", "i", "c", "k", " ",
         "b", "r", "o", "w", "n", " ", "f", "o", "x">>

THE_QUICK_BROWN == << <<"t", "h", "e">>, <<"q", "u", "i", "c", "k">>,
                      <<"b", "r", "o", "w", "n">> >>

LAZY_DOG_JUMPS == << <<"l", "a", "z", "y">>, <<"d", "o", "g">>,
                     <<"j", "u", "m", "p", "s">> >>

\* The rejoined texts verify is tried against.
Corpora ==
    { <<>>,
      A,
      A \o SP \o <<"b">>,
      <<"a", "b">> \o SP \o A,
      <<"b">> \o SP \o SP \o A,
      A \o SP \o <<"b">> \o SP \o A \o SP \o A,
      <<"b">> \o SP \o <<"b">> \o SP \o A \o SP \o <<"b">> \o SP \o <<"b">>,
      FOX }

WordLists == SeqsUpTo({A, <<"b">>}, MaxVerifyLen) \cup {THE_QUICK_BROWN, LAZY_DOG_JUMPS}

\* The values of max overlap total verify is called with.
Mots == {0, 1, 2, MOT}

VerifyInit ==
    /\ raw = <<>>
    /\ text \in {[parsed_sentences |-> <<>>, rejoined_text |-> c] : c \in Corpora}
    /\ options = DefaultOptions
    /\ pc = "idle"
    /\ tries_done = 0
    /\ ret = <<>>
    /\ vfy = NoVerify
    /\ tokenizer = VocabNew
    /\ VocabIdle
    /\ ChainIdle

\* self.verify(words, MOR, mot)
Verify ==
    /\ ~vfy.done
    /\ \E words \in WordLists, mot \in Mots :
         vfy' = [words |-> words, mot |-> mot, done |-> TRUE,
                 ok |-> verify(text.rejoined_text, words, MOR, mot)]
    /\ UNCHANGED <<raw, text, options, pc, tries_done, ret>>
    /\ UNCHANGED <<chain_vars, vocab_vars>>

SpecVerify == VerifyInit /\ [][Verify]_vars

-----------------------------------------------------------------------------
(* The Vocab under any interleaving of its three methods                    *)

VocabWords == {<<>>, <<"a">>, <<"b">>, <<"a", "b">>}

MaxVocabToken == 5

VocabInit ==
    /\ tokenizer = VocabNew
    /\ VocabIdle
    /\ ChainIdle
    /\ TextIdle

ToToken(w) ==
    LET r == to_token(tokenizer, w)
    IN /\ tokenizer' = r.v
       /\ vcall' = [op |-> "to_token", word |-> w, token |-> 0, ret |-> <<r.id>>,
                    hit |-> (w \in Range(first_seen))]
       /\ first_seen' = IF w \in Range(first_seen) THEN first_seen
                        ELSE Append(first_seen, w)
       /\ vprev' = tokenizer
       /\ UNCHANGED <<chain_vars, text_vars>>

\* A lookup that registers the word it does not find.
ToTokenOpt_inserting(w) ==
    /\ vcall' = [op |-> "to_token_opt", word |-> w, token |-> 0,
                 ret |-> to_token_opt(tokenizer, w), hit |-> (w \in Range(first_seen))]
    /\ vprev' = tokenizer
    /\ tokenizer' = to_token(tokenizer, w).v
    /\ UNCHANGED first_seen
    /\ UNCHANGED <<chain_vars, text_vars>>

\* tokenizer.to_token_opt(w): &self, the Vocab stays as it is.
ToTokenOpt(w) ==
    /\ vcall' = [op |-> "to_token_opt", word |-> w, token |-> 0,
                 ret |-> to_token_opt(tokenizer, w), hit |-> (w \in Range(first_seen))]
    /\ vprev' = tokenizer
    /\ UNCHANGED <<tokenizer, first_seen>>
    /\ UNCHANGED <<chain_vars, text_vars>>

ToWord(t) ==
    /\ vcall' = [op |-> "to_word", word |-> <<>>, token |-> t,
                 ret |-> to_word(tokenizer, t), hit |-> (t < Len(first_seen))]
    /\ vprev' = tokenizer
    /\ UNCHANGED <<tokenizer, first_seen>>
    /\ UNCHANGED <<chain_vars, text_vars>>

VocabNext ==
    \/ \E w \in VocabWords : ToToken(w)
    \/ \E w \in VocabWords : ToTokenOpt(w)
    \/ \E t \in 0..MaxVocabToken : ToWord(t)

SpecVocab == VocabInit /\ [][VocabNext]_vars

-----------------------------------------------------------------------------
(* Sampling                                                                 *)

RECURSIVE SumOf(_, _)
SumOf(weight, keys) ==
    IF keys = {} THEN 0
    ELSE LET k == CHOOSE x \in keys : TRUE
         IN weight[k] + SumOf(weight, keys \ {k})

\* The total count of the successors recorded for state st.
TotalWeight(st) == SumOf(chain.model[st], DOMAIN chain.model[st])

\* The draws with which Chain::next returns tok in state st.
Selecting(st, tok) ==
    {r \in Draws(chain, iter_order, st) :
        next(chain, iter_order, st, r) = [err |-> "none", token |-> tok]}

\* C1: for every state stored in the Model, the draws of next are exactly
\* 0..W-1 for the total count W of its successors, and each successor is
\* selected by as many draws as its count, whatever the iteration order.
C1_SamplingFollowsFrequencies ==
    cpc # "new" =>
        \A st \in DOMAIN chain.model :
            /\ Draws(chain, iter_order, st) = 0..(TotalWeight(st) - 1)
            /\ \A tok \in DOMAIN chain.model[st] :
                   Cardinality(Selecting(st, tok)) = chain.model[st][tok]

-----------------------------------------------------------------------------
(* The random walk                                                          *)

\* C2: a walk that starts from the default state of a Chain with training
\* data, or from a state find_init_states returned, only enters states that
\* are keys of the Model with at least one successor, and next never fails
\* on a missing state.
C2_ModelClosedUnderStepping ==
    /\ (cpc = "walk" /\ (Len(result) > 0 \/ data # <<>>)) =>
           /\ state \in DOMAIN chain.model
           /\ DOMAIN chain.model[state] # {}
    /\ err # "model.get(state).unwrap()"

\* A walk started from a state of find_init_states has sampled two tokens.
C2_Witness ==
    /\ cpc = "walk"
    /\ start # begin_state(chain)
    /\ Len(result) >= 2
    /\ state \notin {start, begin_state(chain)}

\* C10: a Chain built from no training sequence has an empty Model and an
\* empty cached distribution, and generate from the default state never
\* returns: its first call of next panics.
C10_EmptyCorpusPanics ==
    (data = <<>> /\ cpc # "new") =>
        /\ chain.model = EmptyMap
        /\ chain.begin_choices = <<>>
        /\ chain.begin_weights = <<>>
        /\ \/ cpc = "ready"
           \/ cpc = "walk" /\ drawn = 0 /\ state = begin_state(chain)
           \/ cpc = "panic" /\ drawn = 1 /\ result = <<>>

\* The first step of generate on the empty Chain has panicked.
C10_Witness ==
    /\ data = <<>>
    /\ cpc = "panic"
    /\ err = "cumdist.last().unwrap()"

-----------------------------------------------------------------------------
(* The output of generate                                                   *)

\* C3: no token sequence that Chain::generate returns from the default state
\* of the Chain of a Text holds the BEGIN token or the END token.
C3_NoSentinelInOutput ==
    (pc = "sampling" /\ cpc = "returned") =>
        \A i \in 1..Len(result) :
            result[i] \notin {chain.token_begin, chain.token_end}

\* A candidate qualifies when its length is inside [min_words, max_words],
\* compared as integers, and verify accepts its words.
Qualifies(tokens, opts) ==
    /\ opts.min_words <= Len(tokens)
    /\ Len(tokens) <= opts.max_words
    /\ verify(text.rejoined_text, to_words(tokenizer, tokens), MOR, MOT)

\* C4: generate makes at most `tries` attempts; every candidate it turns down
\* does not qualify; a non-empty result is the single-space join of the words
\* of a qualifying candidate; the empty string is returned only after `tries`
\* attempts that were all turned down.
C4_FirstQualifyingAttempt ==
    /\ tries_done <= Max(options.tries, 0)
    /\ (pc = "loop" /\ tries_done > 0) => ~Qualifies(result, options)
    /\ (pc = "returned" /\ ret # <<>>) =>
           /\ Qualifies(result, options)
           /\ ret = JoinWith(to_words(tokenizer, result), SP)
    /\ (pc = "returned" /\ ret = <<>>) => tries_done = Max(options.tries, 0)

\* C5: trained on "a b c" alone, generate with the default options returns
\* the string "a b c".
C5_ReturnsABC ==
    (raw = ABC /\ options = DefaultOptions /\ pc = "returned") => ret = ABC

\* C5, amended: trained on "a b c" alone, every candidate of the Chain is the
\* words a, b, c; verify turns it down each time, and generate with the
\* default options returns the empty string after its 999 attempts.
C5_CandidatesABCResultEmpty ==
    (raw = ABC /\ pc \notin {"new", "ready"}) =>
        /\ cpc # "panic"
        /\ (pc = "sampling" /\ cpc = "returned") =>
               to_words(tokenizer, result) = <<A, <<"b">>, <<"c">> >>
        /\ pc = "returned" => (ret = <<>> /\ tries_done = Max(options.tries, 0))

\* generate with the default options has returned for the text "a b c".
C5_Witness ==
    /\ raw = ABC
    /\ options = DefaultOptions
    /\ pc = "returned"
    /\ tries_done = 999
    /\ result = <<0, 1, 2>>

\* C9: with tries = 0, generate returns the empty string without a call of
\* the Chain and without a panic, whatever the corpus and the word limits.
C9_ZeroTriesReturnsEmpty ==
    (options.tries = 0 /\ pc \notin {"new", "ready"}) =>
        /\ pc \in {"loop", "returned"}
        /\ pc = "loop" => tries_done >= options.tries
        /\ pc = "returned" => ret = <<>>
        /\ cpc = "ready"
        /\ drawn = 0
        /\ err = "none"

\* generate has returned with tries = 0 for the empty corpus and for a
\* corpus with sentences.
C9_Witness ==
    /\ options.tries = 0
    /\ pc = "returned"
    /\ text.parsed_sentences = <<>>

-----------------------------------------------------------------------------
(* The overlap verifier                                                     *)

\* x / 10 rounded to the nearest integer, a half away from zero (x >= 0).
Rounded(x) == CHOOSE k \in 0..(x + 1) : 10 * k - 5 <= x /\ x < 10 * k + 5

OverlapMax(n, mot) == Min(mot, Rounded(MOR * n))

\* C6: verify returns false exactly when one of the max(1, n - overlapMax)
\* windows of overlapMax + 1 consecutive words, joined by single spaces,
\* occurs in the rejoined corpus.
C6_RejectsIffFullWindowInCorpus ==
    vfy.done =>
        LET n  == Len(vfy.words)
            om == OverlapMax(n, vfy.mot)
        IN vfy.ok = FALSE <=>
               \E i \in 0..(Max(1, n - om) - 1) :
                   /\ i + om + 1 <= n
                   /\ Contains(text.rejoined_text,
                               JoinWith(SubSeq(vfy.words, i + 1, i + om + 1), SP))

\* C6, amended: the windows are cut off at the end of the list, so a list of
\* at most overlapMax words has the one window of all its words (and the
\* empty list is always turned down).
C6_RejectsIffWindowInCorpus ==
    vfy.done =>
        LET n  == Len(vfy.words)
            om == OverlapMax(n, vfy.mot)
        IN vfy.ok = FALSE <=>
               \E i \in 0..(Max(1, n - om) - 1) :
                   Contains(text.rejoined_text,
                            JoinWith(SubSeq(vfy.words, i + 1, Min(i + om + 1, n)), SP))

\* verify turned a list down for a window that is not its first one.
C6_Witness ==
    /\ vfy.done
    /\ ~vfy.ok
    /\ Len(vfy.words) - OverlapMax(Len(vfy.words), vfy.mot) >= 2
    /\ ~Contains(text.rejoined_text,
                 JoinWith(SubSeq(vfy.words, 1, OverlapMax(Len(vfy.words), vfy.mot) + 1), SP))

-----------------------------------------------------------------------------
(* The Vocab                                                                *)

\* C7: in every Vocab that to_token calls lead to, for every word w,
\* to_word(to_token(w)) is w, and a second to_token(w) returns the same token
\* and leaves the Vocab as it is.
C7_RoundTripIdempotent ==
    /\ \A w \in VocabWords :
           LET r1 == to_token(tokenizer, w)
               r2 == to_token(r1.v, w)
           IN /\ to_word(r1.v, r1.id) = w
              /\ r2.id = r1.id
              /\ r2.v = r1.v
    /\ vcall.op = "to_token" =>
           /\ to_word(tokenizer, vcall.ret[1]) = vcall.word
           /\ vcall.hit => (tokenizer = vprev /\ vcall.ret[1] = vprev.word_to_id[vcall.word])

\* to_token was called again for a word that is registered, with others.
C7_Witness ==
    /\ vcall.op = "to_token"
    /\ vcall.hit
    /\ Len(tokenizer.id_to_word) >= 2

\* C8: in every reachable Vocab the two structures have the same number of
\* entries, id_to_word[word_to_id[w]] is w for every registered word, the
\* tokens are 0..count-1 in first-seen order, and the last call neither
\* removed nor renumbered a token.
C8_VocabInvariant ==
    LET w2i == tokenizer.word_to_id
        i2w == tokenizer.id_to_word
    IN /\ Cardinality(DOMAIN w2i) = Len(i2w)
       /\ \A w \in DOMAIN w2i : w2i[w] + 1 \in 1..Len(i2w) /\ i2w[w2i[w] + 1] = w
       /\ {w2i[w] : w \in DOMAIN w2i} = 0..(Len(i2w) - 1)
       /\ i2w = first_seen
       /\ \A i \in 1..Len(first_seen) : w2i[first_seen[i]] = i - 1
       /\ \A w \in DOMAIN vprev.word_to_id :
              w \in DOMAIN w2i /\ w2i[w] = vprev.word_to_id[w]
       /\ SubSeq(i2w, 1, Len(vprev.id_to_word)) = vprev.id_to_word

\* Every word is registered and the last call was a lookup.
C8_Witness ==
    /\ Len(tokenizer.id_to_word) = Cardinality(VocabWords)
    /\ vcall.op \in {"to_token_opt", "to_word"}

\* C11: in every reachable Vocab, to_word of a token below the number of
\* registered words is the word registered with that token, to_word of any
\* other token is the empty string, and a call of to_word leaves the Vocab
\* as it was.
C11_ToWordTotal ==
    LET w2i == tokenizer.word_to_id
        count == Cardinality(DOMAIN w2i)
        WordOf(t) == CHOOSE w \in DOMAIN w2i : w2i[w] = t
    IN /\ \A t \in 0..MaxVocabToken :
              /\ t < count => (\E w \in DOMAIN w2i : w2i[w] = t)
              /\ to_word(tokenizer, t) = IF t < count THEN WordOf(t) ELSE <<>>
       /\ vcall.op = "to_word" =>
              /\ tokenizer = vprev
              /\ vcall.ret = IF vcall.token < count THEN WordOf(vcall.token) ELSE <<>>

\* to_word was called with a token that is out of range, on a Vocab that
\* holds words.
C11_Witness ==
    /\ vcall.op = "to_word"
    /\ Len(tokenizer.id_to_word) >= 2
    /\ vcall.token >= Len(tokenizer.id_to_word)
    /\ vcall.ret = <<>>

\* C12: to_token_opt returns the token assigned to a registered word and None
\* for any other word; in both cases the Vocab is as before the call, so that
\* a later to_token of an absent word still gets the next unused id.
C12_ToTokenOptReadOnly ==
    vcall.op = "to_token_opt" =>
        /\ tokenizer = vprev
        /\ \A i \in 1..Len(first_seen) :
               first_seen[i] = vcall.word => vcall.ret = <<i - 1>>
        /\ vcall.word \notin Range(first_seen) =>
               /\ vcall.ret = <<>>
               /\ vcall.word \notin DOMAIN tokenizer.word_to_id
               /\ vcall.word \notin Range(tokenizer.id_to_word)
               /\ to_token(tokenizer, vcall.word).id = Len(first_seen)

\* to_token_opt was called with a word that is absent, on a Vocab that holds
\* words.
C12_Witness ==
    /\ vcall.op = "to_token_opt"
    /\ ~vcall.hit
    /\ vcall.ret = <<>>
    /\ Len(tokenizer.id_to_word) >= 2

-----------------------------------------------------------------------------
(* The Model that build makes                                               *)

\* The positions of one extended sequence where the window s is followed by t.
Positions(ext, s, t) ==
    {i \in 1..(Len(ext) - STATE_SIZE) :
        SubSeq(ext, i, i + STATE_SIZE - 1) = s /\ ext[i + STATE_SIZE] = t}

\* Their number over all the training sequences, each one extended.
RECURSIVE Occurrences(_, _, _)
Occurrences(runs, s, t) ==
    IF Len(runs) = 0 THEN 0
    ELSE Cardinality(Positions(<<chain.token_begin, chain.token_begin>> \o runs[1]
                                   \o <<chain.token_end>>, s, t))
             + Occurrences(Tail(runs), s, t)

\* C13: Model[s][t] is the number of positions, over all the extended
\* training sequences, where the window s is followed by t; a pair that never
\* occurs is absent; every stored state has a successor and every stored
\* count is at least 1. (Stated of the Chain that Chain::new returned; no
\* method changes the Model afterwards.)
C13_ModelCountsExactly ==
    cpc = "ready" =>
        /\ \A s \in [1..STATE_SIZE -> Tokens], t \in Tokens :
               LET n == Occurrences(data, s, t)
               IN IF n = 0
                  THEN s \in DOMAIN chain.model => t \notin DOMAIN chain.model[s]
                  ELSE /\ s \in DOMAIN chain.model
                       /\ t \in DOMAIN chain.model[s]
                       /\ chain.model[s][t] = n
        /\ \A s \in DOMAIN chain.model :
               /\ s \in [1..STATE_SIZE -> Tokens]
               /\ DOMAIN chain.model[s] # {}
               /\ DOMAIN chain.model[s] \subseteq Tokens
               /\ \A t \in DOMAIN chain.model[s] : chain.model[s][t] >= 1

\* A Model with several states, one of them with two successors of which one
\* was counted twice.
C13_Witness ==
    /\ cpc = "ready"
    /\ Cardinality(DOMAIN chain.model) >= 3
    /\ \E s \in DOMAIN chain.model :
           /\ Cardinality(DOMAIN chain.model[s]) >= 2
           /\ \E t \in DOMAIN chain.model[s] : chain.model[s][t] >= 2

-----------------------------------------------------------------------------
(* The cumulative distribution of a step                                    *)

\* w_0 + ... + w_(i-1) for every i in 1..Len(ws)
RECURSIVE PrefixSum(_, _)
PrefixSum(ws, i) == IF i = 0 THEN 0 ELSE PrefixSum(ws, i - 1) + ws[i]

\* The weights of state st in the order of its candidates.
WeightsOf(st) ==
    LET choices == Candidates(chain, iter_order, st).choices
    IN [i \in 1..Len(choices) |-> chain.model[st][choices[i]]]

\* C14: for every state stored in the Model, the begin state with its cached
\* lists included, the cumulative list is the list of the prefix sums of the
\* weights, and its last value is the total weight of the state.
C14_CumulativeIsPrefixSum ==
    cpc # "new" =>
        \A st \in DOMAIN chain.model :
            LET cumdist == Candidates(chain, iter_order, st).cumdist
                ws      == WeightsOf(st)
            IN /\ Len(cumdist) = Len(ws)
               /\ \A i \in 1..Len(ws) : cumdist[i] = PrefixSum(ws, i)
               /\ cumdist[Len(cumdist)] = TotalWeight(st)

-----------------------------------------------------------------------------
(* Termination of the random walk                                           *)

\* The tokens next can return in state st.
Support(st) ==
    {next(chain, iter_order, st, r).token :
        r \in {d \in Draws(chain, iter_order, st) :
                  next(chain, iter_order, st, d).err = "none"}}

\* The states of the Model from which a finite sequence of tokens that next
\* can return ends with the end token: the least set that holds S and is
\* closed under going one turn back.
RECURSIVE EndReachable(_)
EndReachable(S) ==
    LET more == {s \in DOMAIN chain.model :
                    \E t \in Support(s) :
                        t = chain.token_end \/ Append(Tail(s), t) \in S}
    IN IF more \subseteq S THEN S ELSE EndReachable(S \cup more)

WalkFromDefault ==
    /\ cpc = "walk"
    /\ data # <<>>
    /\ start = begin_state(chain)

\* C15: for a Chain built from training sequences, every state a walk from
\* the default initial state is in has a finite sequence of selectable
\* successors that ends with END, and under the fairness of the draws the
\* walk returns.
C15_WalkReturns ==
    /\ [](WalkFromDefault => state \in EndReachable({}))
    /\ WalkFromDefault ~> (cpc = "returned")

\* A walk from the default state went on for more turns than result keeps
\* tokens, through a cycle of the Model, and then returned.
C15_Witness ==
    /\ cpc = "returned"
    /\ data # <<>>
    /\ start = begin_state(chain)
    /\ Len(result) = MaxSteps
    /\ drawn > MaxSteps + 2
    /\ \A i \in 1..Len(data) : Len(data[i]) < MaxSteps

-----------------------------------------------------------------------------
(* The sentinels and the options of a Text                                  *)

\* C16: the begin token and the end token that Text::new gives to the Chain
\* differ from each other and from every token of every parsed sentence.
C16_SentinelsReserved ==
    pc # "new" =>
        /\ chain.token_begin # chain.token_end
        /\ \A i \in 1..Len(text.parsed_sentences) :
               \A j \in 1..Len(text.parsed_sentences[i]) :
                   text.parsed_sentences[i][j] \notin {chain.token_begin, chain.token_end}

\* C17: generate turns a candidate of n tokens down on its length exactly
\* when n < min_words or n > max_words, compared as integers, for negative
\* values of the two options as well.
C17_LengthFilterAsIntegers ==
    (pc = "sampling" /\ cpc = "returned") =>
        (length_rejects(Len(result), options)
            <=> (Len(result) < options.min_words \/ Len(result) > options.max_words))

-----------------------------------------------------------------------------
(* The support of a step                                                    *)

\* C18: whenever next is called in a state stored in the Model (every stored
\* state starts a walk, by find_init_states), for every draw the index that
\* bisect_right computes is a position of the candidate list, and the tokens
\* next can return are exactly the successors recorded for the state.
C18_StepSupport ==
    (cpc = "walk" /\ state \in DOMAIN chain.model) =>
        LET cand == Candidates(chain, iter_order, state)
        IN /\ cand.err = "none"
           /\ Range(cand.choices) = DOMAIN chain.model[state]
           /\ \A r \in Draws(chain, iter_order, state) :
                  /\ bisect_right(cand.cumdist, r) < Len(cand.choices)
                  /\ next(chain, iter_order, state, r).err = "none"
           /\ {next(chain, iter_order, state, r).token :
                   r \in Draws(chain, iter_order, state)} = DOMAIN chain.model[state]

\* A walk has drawn from a state with successors of different counts.
C18_Witness ==
    /\ cpc = "walk"
    /\ drawn >= 1
    /\ state \in DOMAIN chain.model
    /\ start \in DOMAIN chain.model
    /\ \E a, b \in DOMAIN chain.model[start] :
           chain.model[start][a] > chain.model[start][b]

-----------------------------------------------------------------------------
(* The shortest output                                                      *)

\* The sentences parse keeps of an input.
Sentences(input) == SelectSeq(split(input, "\n", <<>>), sentence_input)

\* The white space of s is single spaces, never two in a row.
SingleSpaced(s) ==
    \A i \in 1..Len(s) :
        IsWhitespace(s[i]) =>
            /\ s[i] = " "
            /\ i < Len(s) => ~IsWhitespace(s[i + 1])

\* No word of s is one of the two sentinel literals.
NoSentinelWord(s) ==
    \A w \in Range(split_whitespace(s, <<>>)) : w \notin {BEGIN, END}

\* The corpus of the Text: single-spaced sentences without sentinel words.
PlainCorpus ==
    \A i \in 1..Len(Sentences(raw)) :
        SingleSpaced(Sentences(raw)[i]) /\ NoSentinelWord(Sentences(raw)[i])

\* C19: for a corpus of single-spaced sentences without sentinel words and
\* for all options, verify turns down every candidate of at most 3 words that
\* the Chain produces from the default state, and every non-empty string that
\* generate returns has at least 4 words.
\* (Written from the candidate to the corpus: a candidate of at most 3 words
\* that verify accepts, or a returned string of 1 to 3 words, is not met for
\* such a corpus.)
C19_AtLeastFourWords ==
    /\ (/\ pc = "sampling" /\ cpc = "returned"
        /\ Len(result) <= 3
        /\ verify(text.rejoined_text, to_words(tokenizer, result), MOR, MOT))
           => ~PlainCorpus
    /\ (/\ pc = "returned"
        /\ ret # <<>>
        /\ Len(result) < 4 \/ Len(split_whitespace(ret, <<>>)) < 4)
           => ~PlainCorpus

\* generate has returned a string of four words for such a corpus.
C19_Witness ==
    /\ PlainCorpus
    /\ pc = "returned"
    /\ Len(split_whitespace(ret, <<>>)) >= 4

=============================================================================
